---- MODULE Spec2Model ----
(***************************************************************************)
(* Model of the portable-brains ingestion pipeline: the text normalizer    *)
(* and sentence chunker of DocumentProcessor, the two Storage backends     *)
(* (DuckDBStorage, LanceDBStorage) and the two-phase orchestration of      *)
(* main / process_document / process_embedding_batch.                      *)
(*                                                                         *)
(* Text is a sequence of one-character strings.  Rust's str::len() counts  *)
(* UTF-8 bytes, not characters, so every length the code takes with len()  *)
(* is StrLen (bytes) and every chars().take(n) is a character count.       *)
(***************************************************************************)
EXTENDS Integers, Sequences, FiniteSets, TLC

(***************************************************************************)
(* Characters.                                                             *)
(***************************************************************************)
NL == "\n"
TAB == "\t"
SP == " "
\* a control character that is not whitespace (U+0001)
CTL == "^A"
\* a two-byte character (U+00E9)
EACUTE == "e'"

IsWhitespace(c) == c \in {SP, NL, TAB}
IsControl(c) == c \in {NL, TAB, CTL}
IsUppercase(c) == c \in {"A", "B", "C", "D", "E"}
IsSentenceEnd(c) == c \in {".", "!", "?"}
ByteLen(c) == IF c = EACUTE THEN 2 ELSE 1

\* str::len(): the length in bytes, one per character and one more for
\* every two-byte character
StrLen(s) == Len(s) + Cardinality({i \in 1..Len(s) : ByteLen(s[i]) = 2})

\* chars().take(n).collect()
TakeChars(s, n) == IF Len(s) <= n THEN s ELSE SubSeq(s, 1, n)

RECURSIVE TrimStart(_)
TrimStart(s) ==
    IF s # <<>> /\ IsWhitespace(Head(s)) THEN TrimStart(Tail(s)) ELSE s

RECURSIVE TrimEnd(_)
TrimEnd(s) ==
    IF s # <<>> /\ IsWhitespace(s[Len(s)])
    THEN TrimEnd(SubSeq(s, 1, Len(s) - 1))
    ELSE s

\* str::trim()
Trim(s) == TrimEnd(TrimStart(s))

\* the indices of s, in increasing order
Indices(s) == [i \in 1..Len(s) |-> i]

\* str::split(sep): the pieces between separators, empty pieces included;
\* cur is what precedes s in its first piece
SplitOn(s, sep, cur) ==
    LET at == SelectSeq(Indices(s), LAMBDA i : s[i] = sep)
        from(k) == IF k = 1 THEN 1 ELSE at[k - 1] + 1
        to(k) == IF k = Len(at) + 1 THEN Len(s) ELSE at[k] - 1
    IN  [k \in 1..(Len(at) + 1) |->
            (IF k = 1 THEN cur ELSE <<>>) \o SubSeq(s, from(k), to(k))]

\* str::lines(): split on newline, a final empty line is not produced
Lines(s) ==
    LET parts == SplitOn(s, NL, <<>>)
    IN  IF parts[Len(parts)] = <<>> THEN SubSeq(parts, 1, Len(parts) - 1) ELSE parts

RECURSIVE JoinWith(_, _)
\* [..].join(sep)
JoinWith(parts, sep) ==
    IF parts = <<>> THEN <<>>
    ELSE IF Len(parts) = 1 THEN parts[1]
    ELSE parts[1] \o sep \o JoinWith(Tail(parts), sep)

RECURSIVE SelectNonEmpty(_)
SelectNonEmpty(parts) ==
    IF parts = <<>> THEN <<>>
    ELSE IF Head(parts) = <<>> THEN SelectNonEmpty(Tail(parts))
    ELSE <<Head(parts)>> \o SelectNonEmpty(Tail(parts))

(***************************************************************************)
(* DocumentProcessor::cleanup_text                                         *)
(***************************************************************************)
\* cleanup_regex.replace_all(text, " ") with cleanup_regex = \s+ : every
\* maximal run of whitespace (newlines and tabs included) becomes one space;
\* inRun says that whitespace precedes s
CollapseWhitespace(s, inRun) ==
    LET startsRun(i) == IF i = 1 THEN ~inRun ELSE ~IsWhitespace(s[i - 1])
        kept == SelectSeq(Indices(s), LAMBDA i : ~IsWhitespace(s[i]) \/ startsRun(i))
    IN  [k \in 1..Len(kept) |->
            IF IsWhitespace(s[kept[k]]) THEN SP ELSE s[kept[k]]]

\* .filter(|c| !c.is_control() || *c == '\n' || *c == '\t')
FilterControl(s) ==
    SelectSeq(s, LAMBDA c : ~IsControl(c) \/ c = NL \/ c = TAB)

cleanup_text(text) ==
    LET normalized == CollapseWhitespace(text, FALSE)
        cleaned == FilterControl(normalized)
        parts == SplitOn(cleaned, NL, <<>>)
        trimmed == [i \in 1..Len(parts) |-> Trim(parts[i])]
    IN  JoinWith(SelectNonEmpty(trimmed), <<NL, NL>>)

(***************************************************************************)
(* DocumentProcessor::split_into_sentences                                 *)
(***************************************************************************)
\* the shortest sentence kept has more than this many bytes
MinSentenceLen == 5
\* the shortest chunk kept has more than this many bytes
MinChunkLen == 10

\* sentences.push(sentence) when it is non-empty and longer than 5 bytes
PushSentence(sentences, current) ==
    LET sentence == Trim(current)
    IN  IF sentence # <<>> /\ StrLen(sentence) > MinSentenceLen
        THEN Append(sentences, sentence)
        ELSE sentences

\* the character at i ends a sentence: a terminator at the end of the line
\* or followed by whitespace or an uppercase letter
IsBoundary(line, i) ==
    /\ IsSentenceEnd(line[i])
    /\ \/ i = Len(line)
       \/ /\ i < Len(line)
          /\ IsWhitespace(line[i + 1]) \/ IsUppercase(line[i + 1])

RECURSIVE ScanLine(_, _, _, _)
\* the character loop over one trimmed line, from character i on; the
\* characters up to the next boundary are pushed to current_sentence in
\* one step.  The result is <<sentences, current_sentence>>
ScanLine(line, i, sentences, current) ==
    LET ends == {j \in i..Len(line) : IsBoundary(line, j)}
    IN  IF ends = {}
        THEN <<sentences, current \o SubSeq(line, i, Len(line))>>
        ELSE LET j == CHOOSE e \in ends : \A o \in ends : e <= o
             IN  ScanLine(line, j + 1,
                          PushSentence(sentences, current \o SubSeq(line, i, j)),
                          <<>>)

RECURSIVE ScanLines(_, _, _)
ScanLines(lines, sentences, current) ==
    IF lines = <<>> THEN <<sentences, current>>
    ELSE LET line == Trim(Head(lines))
         IN  IF line = <<>> THEN ScanLines(Tail(lines), sentences, current)
             ELSE LET st == ScanLine(line, 1, sentences, current)
                      cur == IF Trim(st[2]) # <<>> THEN Append(st[2], SP) ELSE st[2]
                  IN  ScanLines(Tail(lines), st[1], cur)

split_into_sentences(text) ==
    LET st == ScanLines(Lines(text), <<>>, <<>>)
    IN  PushSentence(st[1], st[2])

(***************************************************************************)
(* DocumentProcessor::create_overlap_chunk and chunk_text.  A processor is *)
(* the record of the struct's fields.                                      *)
(***************************************************************************)
RECURSIVE OverlapBack(_, _, _, _, _)
\* the backward walk "for i in (0..current_index).rev()"; i is 1-based here
OverlapBack(overlap, sentences, i, overlap_text, overlap_chars) ==
    IF i < 1 THEN overlap_text
    ELSE LET sentence == sentences[i]
         IN  IF overlap_chars + StrLen(sentence) + 1 <= overlap
             THEN OverlapBack(overlap, sentences, i - 1,
                              IF overlap_text # <<>>
                              THEN sentence \o <<SP>> \o overlap_text
                              ELSE sentence,
                              overlap_chars + StrLen(sentence) + 1)
             ELSE overlap_text

\* an overlap that always carries the sentence before the current one,
\* whatever its length
create_overlap_chunk_PreviousSentence(p, chunks, sentences, current_index) ==
    IF chunks = <<>> \/ p.overlap = 0 THEN <<>>
    ELSE OverlapBack(StrLen(sentences[current_index]) + 1, sentences,
                     current_index, <<>>, 0)

\* current_index is the 0-based index of the sentence about to be added
create_overlap_chunk(p, chunks, sentences, current_index) ==
    IF chunks = <<>> \/ p.overlap = 0 THEN <<>>
    ELSE OverlapBack(p.overlap, sentences, current_index, <<>>, 0)

\* chunks.push(trimmed) when it is non-empty and longer than 10 bytes
PushChunk(chunks, current_chunk) ==
    LET trimmed == Trim(current_chunk)
    IN  IF trimmed # <<>> /\ StrLen(trimmed) > MinChunkLen
        THEN Append(chunks, trimmed)
        ELSE chunks

\* the sentences[from..to] joined by single spaces (1-based, empty if from > to)
JoinSentences(sentences, from, to) ==
    IF from > to THEN <<>>
    ELSE JoinWith(SubSeq(sentences, from, to), <<SP>>)

\* the index of the first of the sentences, ending with sentence number i,
\* that an overlap text consists of (i + 1 for the empty text)
SeedFrom(sentences, i, seed) ==
    IF seed = <<>> THEN i + 1
    ELSE CHOOSE f \in 1..i : JoinSentences(sentences, f, i) = seed

RECURSIVE ChunkSteps(_, _, _, _, _, _, _)
\* the loop "while i < sentences.len()"; i is 0-based as in the code.
\* Besides the loop's own chunks and current_chunk it records, for the
\* chunk being built, the overlap text it was started from and the number
\* of its first sentence (cur), and the same for every chunk pushed (marks)
ChunkSteps(p, sentences, i, chunks, current_chunk, cur, marks) ==
    IF i >= Len(sentences)
    THEN LET pushed == PushChunk(chunks, current_chunk)
         IN  [chunks |-> pushed,
              marks |-> IF pushed # chunks
                        THEN Append(marks, [cur EXCEPT !.last = i])
                        ELSE marks]
    ELSE LET sentence == sentences[i + 1]
             full == /\ current_chunk # <<>>
                     /\ StrLen(current_chunk) + StrLen(sentence) + 1 > p.chunk_size
             chunks2 == IF full THEN PushChunk(chunks, current_chunk) ELSE chunks
             marks2 == IF full /\ chunks2 # chunks
                       THEN Append(marks, [cur EXCEPT !.last = i])
                       ELSE marks
             start == IF full THEN create_overlap_chunk(p, chunks2, sentences, i)
                      ELSE current_chunk
             cur2 == IF full \/ current_chunk = <<>>
                     THEN [seed |-> IF full THEN start ELSE <<>>,
                           first |-> IF full THEN SeedFrom(sentences, i, start)
                                     ELSE i + 1,
                           last |-> 0]
                     ELSE cur
             next == (IF start # <<>> THEN Append(start, SP) ELSE start) \o sentence
         IN  ChunkSteps(p, sentences, i + 1, chunks2, next, cur2, marks2)

NoMark == [seed |-> <<>>, first |-> 1, last |-> 0]

ChunkLoop(p, sentences, i, chunks, current_chunk) ==
    ChunkSteps(p, sentences, i, chunks, current_chunk, NoMark, <<>>).chunks

\* a chunker that packs up to four times chunk_size into one chunk
chunk_text_Quadruple(p, text) ==
    IF text = <<>> THEN <<>>
    ELSE ChunkLoop([p EXCEPT !.chunk_size = 4 * @], split_into_sentences(text),
                   0, <<>>, <<>>)

chunk_text(p, text) ==
    IF text = <<>> THEN <<>>
    ELSE ChunkLoop(p, split_into_sentences(text), 0, <<>>, <<>>)

\* chunk_text together with the record of how each returned chunk was built
ChunkTrace(p, text) ==
    IF text = <<>> THEN [chunks |-> <<>>, marks |-> <<>>]
    ELSE ChunkSteps(p, split_into_sentences(text), 0, <<>>, <<>>, NoMark, <<>>)

(***************************************************************************)
(* DocumentFormat and DocumentProcessor::extract_text_from_document.       *)
(* A file is [path, ext, size, raw]: size is the payload's length in       *)
(* bytes and raw is what the format's container parser (or, for plain      *)
(* text, String::from_utf8_lossy) yields for that payload, ParseFailure    *)
(* when the parser reports an error.  The container parsers are external   *)
(* crates.                                                                 *)
(***************************************************************************)
\* what stands for a parser's error: no text has this element
ParseFailure == <<"fail">>

NoFormat == "None"

to_lowercase(ext) ==
    CASE ext = "TXT" -> "txt"
      [] ext = "PDF" -> "pdf"
      [] ext = "Pdf" -> "pdf"
      [] ext = "TEXT" -> "text"
      [] ext = "HTML" -> "html"
      [] ext = "Htm" -> "htm"
      [] ext = "DOCX" -> "docx"
      [] ext = "PPTX" -> "pptx"
      [] ext = "XLSX" -> "xlsx"
      [] ext = "Xlsx" -> "xlsx"
      [] ext = "EXE" -> "exe"
      [] ext = "DOC" -> "doc"
      [] OTHER -> ext

Formats == {"Pdf", "Text", "Html", "Docx", "Pptx", "Xlsx"}

\* DocumentFormat::extensions
extensions(format) ==
    CASE format = "Pdf" -> {"pdf"}
      [] format = "Text" -> {"txt", "text"}
      [] format = "Html" -> {"html", "htm"}
      [] format = "Docx" -> {"docx"}
      [] format = "Pptx" -> {"pptx"}
      [] format = "Xlsx" -> {"xlsx"}

from_extension(extension) ==
    LET e == to_lowercase(extension)
    IN  CASE e = "pdf" -> "Pdf"
          [] e \in {"txt", "text"} -> "Text"
          [] e \in {"html", "htm"} -> "Html"
          [] e = "docx" -> "Docx"
          [] e = "pptx" -> "Pptx"
          [] e = "xlsx" -> "Xlsx"
          [] OTHER -> NoFormat

\* the tail shared by the extractors: normalize, then truncate by characters
\* when the byte length exceeds max_text_length
CleanAndTruncate(p, raw) ==
    LET cleaned_text == cleanup_text(raw)
    IN  IF StrLen(cleaned_text) > p.max_text_length
        THEN TakeChars(cleaned_text, p.max_text_length)
        ELSE cleaned_text

\* Document::extract_text(&[page_num]) returned Err for the page
PageFailure == <<"fail">>

\* an accumulation without the limit on the text length
AccumulatePages_NoLimit(p, pages, i, text_content) ==
    JoinWith([k \in 1..Len(pages) |->
                 IF pages[k] = <<"fail">> THEN <<>> ELSE pages[k] \o <<NL>>], <<>>)

RECURSIVE AccumulatePages(_, _, _, _)
\* extract_text_from_pdf: "for page_num in 1..=page_count" from page i on;
\* a page is the text extract_text gives for it, or PageFailure
AccumulatePages(p, pages, i, text_content) ==
    IF i > Len(pages) \/ StrLen(text_content) > p.max_text_length
    THEN text_content
    ELSE LET page_text == pages[i]
         IN  IF page_text = PageFailure
             THEN AccumulatePages(p, pages, i + 1, text_content)
             ELSE IF StrLen(text_content) + StrLen(page_text) <= p.max_text_length
             THEN AccumulatePages(p, pages, i + 1, text_content \o page_text \o <<NL>>)
             ELSE LET remaining_capacity == p.max_text_length - StrLen(text_content)
                  IN  IF remaining_capacity > 0
                      THEN text_content \o TakeChars(page_text, remaining_capacity)
                      ELSE text_content

\* a PDF file has, besides [path, ext, size, raw], the field pages
extract_text_from_pdf(p, file) ==
    IF file.size > p.max_file_size
    THEN [ok |-> FALSE, err |-> "PDF file too large"]
    ELSE IF file.raw = ParseFailure
    THEN [ok |-> FALSE, err |-> "Failed to parse"]
    ELSE LET text_content == AccumulatePages(p, file.pages, 1, <<>>)
         IN  IF Trim(text_content) = <<>>
             THEN [ok |-> FALSE, err |-> "No text could be extracted"]
             ELSE [ok |-> TRUE, text |-> cleanup_text(text_content)]

\* an extractor that looks at the extension and runs the parser before it
\* looks at the size
extract_text_from_document_FormatFirst(p, file) ==
    IF from_extension(file.ext) = NoFormat
    THEN [ok |-> FALSE, err |-> "Unsupported file format"]
    ELSE IF file.raw = ParseFailure
    THEN [ok |-> FALSE, err |-> "Failed to parse"]
    ELSE IF file.size > p.max_file_size
    THEN [ok |-> FALSE, err |-> "File too large"]
    ELSE LET text == CleanAndTruncate(p, file.raw)
         IN  IF Trim(text) = <<>>
             THEN [ok |-> FALSE, err |-> "No text could be extracted"]
             ELSE [ok |-> TRUE, text |-> text]

\* result: [ok |-> TRUE, text |-> t] or [ok |-> FALSE, err |-> e]
extract_text_from_document(p, file) ==
    IF file.size > p.max_file_size
    THEN [ok |-> FALSE, err |-> "File too large"]
    ELSE IF from_extension(file.ext) = NoFormat
    THEN [ok |-> FALSE, err |-> "Unsupported file format"]
    ELSE IF from_extension(file.ext) = "Pdf"
    THEN LET r == extract_text_from_pdf(p, file)
         IN  IF r.ok /\ Trim(r.text) = <<>>
             THEN [ok |-> FALSE, err |-> "No text could be extracted"]
             ELSE r
    ELSE IF file.raw = ParseFailure
    THEN [ok |-> FALSE, err |-> "Failed to parse"]
    ELSE LET text == CleanAndTruncate(p, file.raw)
         IN  IF Trim(text) = <<>>
             THEN [ok |-> FALSE, err |-> "No text could be extracted"]
             ELSE [ok |-> TRUE, text |-> text]

(***************************************************************************)
(* Storage backends.  A store is the record                                *)
(*   [metadata, documents, fragments, embeddings]                          *)
(* of LanceDBStorage's four maps; for DuckDBStorage they are the tables    *)
(* meta, documents and fragments, the embedding column being the map       *)
(* embeddings (a fragment outside its domain has embedding NULL).          *)
(* Every operation returns [ok, err, store, value].  fault = k > 0 says    *)
(* that the k-th statement the DuckDB engine executes in the call fails    *)
(* (an I/O or engine error); the in-memory LanceDB stub has no such path.  *)
(***************************************************************************)
DB_VERSION == "1.0.0"
Backends == {"duckdb", "lancedb"}

EmptyMap == << >>

Put(map, k, v) == [x \in DOMAIN map \cup {k} |-> IF x = k THEN v ELSE map[x]]

Ok(store, value) == [ok |-> TRUE, err |-> "", store |-> store, value |-> value]
Err(store, err) == [ok |-> FALSE, err |-> err, store |-> store, value |-> "none"]

\* DuckDBStorage::new on a new file runs initialize_tables: empty tables
\* LanceDBStorage::new builds empty maps and initialize() inserts the version
NewStore(backend) ==
    [metadata |-> IF backend = "lancedb"
                  THEN Put(EmptyMap, "version", DB_VERSION)
                  ELSE EmptyMap,
     documents |-> EmptyMap,
     fragments |-> EmptyMap,
     embeddings |-> EmptyMap]

VerifyDuck(store, model_name, fault) ==
    IF fault = 1 THEN Err(store, "StorageError")
    ELSE
    LET hasV == "version" \in DOMAIN store.metadata
        s1 == IF hasV THEN store
              ELSE [store EXCEPT !.metadata = Put(@, "version", DB_VERSION)]
        hasM == "embedding_model" \in DOMAIN s1.metadata
    IN  IF hasV /\ store.metadata["version"] # DB_VERSION
        THEN Err(store, "VersionMismatch")
        ELSE IF hasM
        THEN IF s1.metadata["embedding_model"] # model_name
             THEN Err(s1, "ModelMismatch")
             ELSE Ok(s1, "none")
        ELSE IF fault = 2 THEN Err(s1, "StorageError")
        ELSE Ok([s1 EXCEPT !.metadata = Put(@, "embedding_model", model_name)], "none")

VerifyLance(store, model_name) ==
    LET hasV == "version" \in DOMAIN store.metadata
        s1 == IF hasV THEN store
              ELSE [store EXCEPT !.metadata = Put(@, "version", DB_VERSION)]
    IN  IF hasV /\ store.metadata["version"] # DB_VERSION
        THEN Err(store, "VersionMismatch")
        ELSE IF "embedding_model" \in DOMAIN s1.metadata
        THEN IF s1.metadata["embedding_model"] # model_name
             THEN Err(s1, "ModelMismatch")
             ELSE Ok(s1, "none")
        ELSE Ok([s1 EXCEPT !.metadata = Put(@, "embedding_model", model_name)], "none")

\* a verify_or_set_model that records whatever name it is called with
verify_or_set_model_Overwrite(backend, store, model_name, fault) ==
    Ok([store EXCEPT !.metadata =
           Put(Put(@, "version", DB_VERSION), "embedding_model", model_name)],
       "none")

verify_or_set_model(backend, store, model_name, fault) ==
    IF backend = "duckdb" THEN VerifyDuck(store, model_name, fault)
    ELSE VerifyLance(store, model_name)

PathStored(store, file_path) ==
    \E d \in DOMAIN store.documents : store.documents[d].file_path = file_path

document_exists(backend, store, file_path, fault) ==
    IF backend = "duckdb" /\ fault = 1 THEN Err(store, "StorageError")
    ELSE Ok(store, PathStored(store, file_path))

InsertDocument(store, document_id, file_path, file_data) ==
    [store EXCEPT !.documents =
        Put(@, document_id, [file_path |-> file_path, file_data |-> file_data])]

\* document_id is the fresh Uuid::new_v4() of the call
store_document(backend, store, document_id, file_path, file_data, fault) ==
    IF backend = "duckdb"
    THEN IF fault = 1 \/ PathStored(store, file_path)
         THEN Err(store, "Failed to store document")
         ELSE Ok(InsertDocument(store, document_id, file_path, file_data), document_id)
    ELSE Ok(InsertDocument(store, document_id, file_path, file_data), document_id)

\* an insert that numbers a document's fragments from 1
InsertFragment_FromOne(store, fragment_id, document_id, order, content) ==
    [store EXCEPT !.fragments =
        Put(@, fragment_id, [document_id |-> document_id,
                             fragment_order |-> order + 1,
                             content |-> content])]

InsertFragment(store, fragment_id, document_id, order, content) ==
    [store EXCEPT !.fragments =
        Put(@, fragment_id, [document_id |-> document_id,
                             fragment_order |-> order,
                             content |-> content])]

\* fragment_id is the fresh Uuid::new_v4() of the call
store_text_fragment(backend, store, fragment_id, document_id, order, content, fault) ==
    IF backend = "duckdb"
    THEN IF fault = 1 \/ document_id \notin DOMAIN store.documents
         THEN Err(store, "Failed to store text fragment")
         ELSE Ok(InsertFragment(store, fragment_id, document_id, order, content),
                 fragment_id)
    ELSE Ok(InsertFragment(store, fragment_id, document_id, order, content),
            fragment_id)

\* "x as f32" on the integers that stand for the vector's components
ToF32(x) == IF x < 16777216 THEN x ELSE (x \div 2) * 2

update_fragment_embedding(backend, store, fragment_id, embedding, fault) ==
    IF backend = "duckdb"
    THEN IF fault = 1 THEN Err(store, "Failed to update fragment embedding")
         ELSE IF fragment_id \in DOMAIN store.fragments
         THEN Ok([store EXCEPT !.embeddings = Put(@, fragment_id, embedding)], "none")
         ELSE Ok(store, "none")
    ELSE Ok([store EXCEPT !.embeddings =
                Put(@, fragment_id, [i \in 1..Len(embedding) |-> ToF32(embedding[i])])],
            "none")

Unembedded(store) == DOMAIN store.fragments \ DOMAIN store.embeddings

count_fragments_without_embeddings(backend, store, fault) ==
    IF backend = "duckdb" /\ fault = 1 THEN Err(store, "StorageError")
    ELSE Ok(store, Cardinality(Unembedded(store)))

\* ORDER BY document_id, fragment_order
FragLeq(store, a, b) ==
    LET fa == store.fragments[a]
        fb == store.fragments[b]
    IN  \/ fa.document_id < fb.document_id
        \/ fa.document_id = fb.document_id /\ fa.fragment_order <= fb.fragment_order

Min(a, b) == IF a < b THEN a ELSE b

\* the sequences of k distinct un-embedded fragment ids
Picks(store, k) ==
    {s \in [1..k -> Unembedded(store)] : \A i, j \in 1..k : i # j => s[i] # s[j]}

\* SELECT ... WHERE embedding IS NULL ORDER BY document_id, fragment_order
\* LIMIT ?: the rows the engine may return (rows with equal keys in any order)
DuckRows(store, limit) ==
    LET k == Min(limit, Cardinality(Unembedded(store)))
    IN  {s \in Picks(store, k) :
            /\ \A i \in 1..(k - 1) : FragLeq(store, s[i], s[i + 1])
            /\ \A i \in 1..k : \A f \in Unembedded(store) :
                   (\A j \in 1..k : s[j] # f) => FragLeq(store, s[i], f)}

\* self.fragments.iter().filter(..).take(limit): HashMap iteration order is
\* unspecified, so any k distinct un-embedded fragments in any order
LanceRows(store, limit) ==
    Picks(store, Min(limit, Cardinality(Unembedded(store))))

\* a fetch that ignores its limit
FetchRows_Unlimited(backend, store, limit) ==
    IF backend = "duckdb"
    THEN DuckRows(store, Cardinality(Unembedded(store)))
    ELSE LanceRows(store, Cardinality(Unembedded(store)))

\* a fetch without the filter on the embedding: any fragments, embedded or not
FetchRows_NoFilter(backend, store, limit) ==
    LET k == Min(limit, Cardinality(DOMAIN store.fragments))
    IN  {r \in [1..k -> DOMAIN store.fragments] :
            \A i, j \in 1..k : i # j => r[i] # r[j]}

\* the set of row sequences (fragment ids) the call may return
FetchRows(backend, store, limit) ==
    IF backend = "duckdb" THEN DuckRows(store, limit) ELSE LanceRows(store, limit)

\* the (id, content) pairs of a row sequence
Pairs(store, rows) ==
    [i \in 1..Len(rows) |-> <<rows[i], store.fragments[rows[i]].content>>]

\* rows is the row sequence the engine returned
get_fragments_without_embeddings(backend, store, rows, fault) ==
    IF backend = "duckdb" /\ fault = 1 THEN Err(store, "StorageError")
    ELSE Ok(store, Pairs(store, rows))

(***************************************************************************)
(* Bounds of the model.                                                    *)
(***************************************************************************)
\* files in one run's input directory
MaxFiles == 2
\* the batch sizes explored are 1..MaxBatch
MaxBatch == 2
\* pool of document ids (Uuid::new_v4 values) of one store
MaxDocs == 4
\* pool of fragment ids of one store
MaxFrags == 3
\* engine failures injected into the DuckDB store in one behaviour
MaxFaults == 1
\* runs of the program on one store
MaxRuns == 2
\* batches kept in the log of embedding-backend calls
MaxCalls == 3

DocIds == 1..MaxDocs
FragIds == 1..MaxFrags

(***************************************************************************)
(* The inputs: files, processor configurations, model names.               *)
(***************************************************************************)
\* "Xaaaaaaaaa." : one sentence of n + 2 bytes
Sentence(c, n) == <<c>> \o [i \in 1..n |-> "a"] \o <<".">>

TextA == Sentence("A", 9) \o <<NL>> \o Sentence("B", 9)
TextB == <<SP>> \o Sentence("D", 10) \o <<TAB, SP>> \o <<"E", "a", ".">>

\* process_document refuses files whose metadata length exceeds 100 * 1024 * 1024
FileSizeLimit == 104857600

\* one sentence of 6 bytes: a text that chunk_text gives no chunk for
TextF == Sentence("F", 4)

\* a and b are plain texts, c is a PDF whose page gives no text, d is larger
\* than main's max_file_size and e larger than FileSizeLimit, f is a plain
\* text of one short sentence
Files ==
    [a |-> [path |-> "/in/a.txt", ext |-> "txt", size |-> StrLen(TextA), raw |-> TextA],
     b |-> [path |-> "/in/b.TXT", ext |-> "TXT", size |-> StrLen(TextB), raw |-> TextB],
     c |-> [path |-> "/in/c.pdf", ext |-> "pdf", size |-> 4096, raw |-> <<>>,
            pages |-> <<<<>>>>],
     d |-> [path |-> "/in/d.txt", ext |-> "txt", size |-> 60000000, raw |-> TextB],
     e |-> [path |-> "/in/e.pdf", ext |-> "pdf", size |-> 200000000, raw |-> <<>>,
            pages |-> <<TextA>>],
     f |-> [path |-> "/in/f.txt", ext |-> "txt", size |-> StrLen(TextF), raw |-> TextF]]

FileIds == DOMAIN Files

\* DocumentProcessor::with_limits(chunk_size, overlap, max_file_size,
\* max_text_length); main passes (800, 100, 50 MiB, 5_000_000), the model
\* explores processors with small chunk sizes so that short texts give
\* several fragments
Processors ==
    {[chunk_size |-> 20, overlap |-> 12,
      max_file_size |-> 52428800, max_text_length |-> 5000000]}

ModelNames == {"m1", "m2"}

\* find_supported_files: the listing of the input directory, in the order
\* read_dir yields it
Listings ==
    UNION {{s \in [1..n -> FileIds] : \A i, j \in 1..n : i # j => s[i] # s[j]}
           : n \in 0..MaxFiles}

\* an extension filter that also admits old Word files
IsSupported_WithDoc(file) ==
    to_lowercase(file.ext) \in
        {"pdf", "txt", "text", "html", "htm", "doc", "docx", "pptx", "xlsx"}

\* the extension filter of find_supported_files
IsSupported(file) ==
    to_lowercase(file.ext) \in
        {"pdf", "txt", "text", "html", "htm", "docx", "pptx", "xlsx"}

\* no extension: Path::extension() is None
NoExtension == ""

\* find_supported_files over the entries read_dir yields, each with the
\* extension of its path and whether it is a regular file
find_supported_files(entries) ==
    SelectSeq(entries, LAMBDA entry : /\ entry.is_file
                                      /\ entry.ext # NoExtension
                                      /\ IsSupported(entry))

(***************************************************************************)
(* The embedding backend (EmbeddingManager::generate_embeddings_batch).    *)
(***************************************************************************)
\* the vector the embedding model gives a text
Embedding(text) == <<StrLen(text)>>

EmbedderKinds == {"full", "partial", "faulty"}

\* the replies a backend of the given kind may give to a batch of texts:
\* "full" embeds every text, "partial" may answer any text with the empty
\* vector, "faulty" may also answer with the wrong number of vectors or fail
Replies(kind, texts) ==
    LET n == Len(texts)
        all == [i \in 1..n |-> Embedding(texts[i])]
        some == {r \in [1..n -> {TRUE, FALSE}] : TRUE}
        partial == {[i \in 1..n |-> IF m[i] THEN all[i] ELSE <<>>] : m \in some}
    IN  CASE kind = "full" -> {[ok |-> TRUE, vectors |-> all]}
          [] kind = "partial" -> {[ok |-> TRUE, vectors |-> v] : v \in partial}
          [] OTHER ->
               {[ok |-> TRUE, vectors |-> v] : v \in partial}
               \cup {[ok |-> TRUE, vectors |-> SubSeq(all, 1, n - 1)],
                     [ok |-> TRUE, vectors |-> Append(all, <<1>>)],
                     [ok |-> FALSE, vectors |-> <<>>]}

(***************************************************************************)
(* State.                                                                  *)
(***************************************************************************)
VARIABLES
    backend,          \* args.backend: which Storage implementation is used
    storage,          \* the store (the database file, or the in-memory maps)
    model,            \* args.model
    supported_files,  \* main: the list find_supported_files returned
    processor,        \* main: document_processor
    batch_size,       \* the batch_size main passes to process_embedding_batch
    embedder,         \* the kind of embedding backend Phase 2 of this run meets
    pc,               \* main's position
    file_index,       \* main: the Phase 1 loop's index, 1-based
    pd,               \* process_document's locals for the file in progress
    results,          \* per attempted file, <<file, outcome>> as main prints it
    total_fragments,  \* main: total_fragments
    batch,            \* process_embedding_batch: fragments (the fetched pairs)
    embeddings,       \* process_embedding_batch: embeddings (the backend's reply)
    embed_calls,      \* the number of texts in each call of the embedding backend
    faults,           \* engine failures injected so far
    runs,             \* runs of the program started on the current store
    ret,              \* the last direct call of the storage interface
    input_text,       \* the text a function of DocumentProcessor is applied to
    input_pages,      \* the pages of the PDF extract_text_from_pdf is applied to
    applied,          \* the last application of such a function, with its result
    temp_dir,         \* the temp_excel_*.xlsx files in std::env::temp_dir()
    xlsx              \* extract_text_from_xlsx: its position and locals

vars == <<backend, storage, model, supported_files, processor, batch_size,
          embedder, pc, file_index, pd, results, total_fragments, batch,
          embeddings, embed_calls, faults, runs, ret, input_text, input_pages,
          applied, temp_dir, xlsx>>

unitVars == <<input_text, input_pages, applied, temp_dir, xlsx>>
runVars == <<model, supported_files, processor, batch_size, embedder>>
mainVars == <<pc, file_index, pd, results, total_fragments, batch, embeddings,
              embed_calls>>

\* a text that is not live: not read yet, or dropped
NoText == <<"none">>

NoPd == [file_data |-> "none", text |-> NoText, fragments |-> <<>>,
         order |-> 0, document_id |-> 0]

NoRet == [op |-> "none", args |-> <<>>, ok |-> TRUE, err |-> "", value |-> "none"]

NoApplied == [op |-> "none"]

NoXlsx == [pc |-> "idle", temp_path |-> 0, result |-> "none", calls |-> 0]

\* the program before a run, no storage call made
InitMain ==
    /\ backend \in Backends
    /\ storage = NewStore(backend)
    /\ model = "m1"
    /\ supported_files = <<>>
    /\ processor \in Processors
    /\ batch_size \in 1..MaxBatch
    /\ embedder = "full"
    /\ pc = "exited"
    /\ file_index = 0
    /\ pd = NoPd
    /\ results = <<>>
    /\ total_fragments = 0
    /\ batch = <<>>
    /\ embeddings = <<>>
    /\ embed_calls = <<>>
    /\ faults = 0
    /\ runs = 0
    /\ ret = NoRet

Init ==
    /\ InitMain
    /\ input_text = <<>>
    /\ input_pages = <<>>
    /\ applied = NoApplied
    /\ temp_dir = {}
    /\ xlsx = NoXlsx

\* the engine failures a call may meet: none for the LanceDB stub
Faults(n) ==
    IF backend = "duckdb" /\ faults < MaxFaults THEN 0..n ELSE {0}

CountFault(fault) == faults' = IF fault = 0 THEN faults ELSE faults + 1

\* Uuid::new_v4() for a document.  Ids are opaque keys to the pipeline, which
\* takes the least unused one; the storage harness below passes any unused id
FreshDocIds ==
    LET free == DocIds \ DOMAIN storage.documents
    IN  IF free = {} THEN {} ELSE {CHOOSE d \in free : \A g \in free : d <= g}

\* fragment ids are opaque keys: nothing orders by them
FreshFragIds ==
    LET free == FragIds \ (DOMAIN storage.fragments \cup DOMAIN storage.embeddings)
    IN  IF free = {} THEN {} ELSE {CHOOSE f \in free : \A g \in free : f <= g}

(***************************************************************************)
(* main: start of a run (Args::parse, create_storage).  The DuckDB file    *)
(* outlives the process, the LanceDB stub starts every run empty.          *)
(***************************************************************************)
\* the model names a run may be started with: a store that holds no model
\* yet treats every name alike, so one name stands for all of them
ArgsModels ==
    IF "embedding_model" \in DOMAIN storage.metadata /\ backend = "duckdb"
    THEN ModelNames
    ELSE {"m1"}

StartRun ==
    /\ pc \in {"exited", "done", "failed"}
    /\ runs < MaxRuns
    /\ runs' = IF backend = "lancedb" THEN 1 ELSE runs + 1
    /\ storage' = IF backend = "lancedb" THEN NewStore(backend) ELSE storage
    /\ model' \in ArgsModels
    /\ supported_files' \in {l \in Listings : \A i \in DOMAIN l : IsSupported(Files[l[i]])}
    /\ embedder' = "full"
    /\ pc' = "verify"
    /\ file_index' = 0
    /\ pd' = NoPd
    /\ results' = <<>>
    /\ total_fragments' = 0
    /\ batch' = <<>>
    /\ embeddings' = <<>>
    /\ embed_calls' = <<>>
    /\ UNCHANGED <<unitVars, backend, processor, batch_size, faults, ret>>

\* main: storage.verify_or_set_model(&args.model).await?
MainVerify ==
    /\ pc = "verify"
    /\ \E fault \in Faults(2) :
          LET r == verify_or_set_model(backend, storage, model, fault)
          IN  /\ storage' = r.store
              /\ pc' = IF r.ok THEN "scan" ELSE "failed"
              /\ CountFault(fault)
    /\ UNCHANGED <<unitVars, backend, runVars, file_index, pd, results, total_fragments,
                   batch, embeddings, embed_calls, runs, ret>>

\* main: the early return when no supported file was found, else Phase 1
MainScan ==
    /\ pc = "scan"
    /\ IF supported_files = <<>>
       THEN pc' = "done" /\ UNCHANGED file_index
       ELSE pc' = "pd_check" /\ file_index' = 1
    /\ UNCHANGED <<unitVars, backend, storage, runVars, pd, results, total_fragments,
                   batch, embeddings, embed_calls, faults, runs, ret>>

(***************************************************************************)
(* process_document, one action per step between its I/O points.           *)
(***************************************************************************)
CurrentFileId == supported_files[file_index]
CurrentFile == Files[CurrentFileId]

\* a main that propagates a file's error instead of printing it
FileReturns_Abort(outcome) ==
    /\ results' = Append(results, <<CurrentFileId, outcome>>)
    /\ pd' = NoPd
    /\ file_index' = file_index + 1
    /\ pc' = IF outcome # "Ok" THEN "failed"
             ELSE IF file_index < Len(supported_files) THEN "pd_check"
             ELSE "p2_count"

\* a main that embeds after every file
FileReturns_EmbedEach(outcome) ==
    /\ results' = Append(results, <<CurrentFileId, outcome>>)
    /\ pd' = NoPd
    /\ file_index' = file_index + 1
    /\ pc' = "p2_count"

\* a process_document whose locals outlive its return
FileReturns_KeepLocals(outcome) ==
    /\ results' = Append(results, <<CurrentFileId, outcome>>)
    /\ pd' = pd
    /\ file_index' = file_index + 1
    /\ pc' = IF file_index < Len(supported_files) THEN "pd_check" ELSE "p2_count"

\* process_document returned (Ok(n) or Err): main prints the outcome and the
\* for loop moves to the next file, or Phase 1 ends
FileReturns(outcome) ==
    /\ results' = Append(results, <<CurrentFileId, outcome>>)
    /\ pd' = NoPd
    /\ file_index' = file_index + 1
    /\ pc' = IF file_index < Len(supported_files) THEN "pd_check" ELSE "p2_count"

\* a process_document without the document_exists check
PdCheck_NoExists ==
    /\ pc = "pd_check"
    /\ IF CurrentFile.size > FileSizeLimit
       THEN FileReturns("File too large")
       ELSE /\ pc' = "pd_read"
            /\ UNCHANGED <<results, pd, file_index>>
    /\ UNCHANGED <<unitVars, backend, storage, runVars, total_fragments, batch, embeddings,
                   embed_calls, faults, runs, ret>>

\* document_exists, then the metadata size check
PdCheck ==
    /\ pc = "pd_check"
    /\ \E fault \in Faults(1) :
          LET r == document_exists(backend, storage, CurrentFile.path, fault)
          IN  /\ CountFault(fault)
              /\ IF ~r.ok THEN FileReturns(r.err)
                 ELSE IF r.value THEN FileReturns("Document already exists")
                 ELSE IF CurrentFile.size > FileSizeLimit
                 THEN FileReturns("File too large")
                 ELSE /\ pc' = "pd_read"
                      /\ UNCHANGED <<results, pd, file_index>>
    /\ UNCHANGED <<unitVars, backend, storage, runVars, total_fragments, batch, embeddings,
                   embed_calls, runs, ret>>

\* std::fs::read(file_path)
PdRead ==
    /\ pc = "pd_read"
    /\ \E readable \in BOOLEAN :
          IF readable
          THEN /\ pd' = [pd EXCEPT !.file_data = CurrentFileId]
               /\ pc' = "pd_store"
               /\ UNCHANGED <<results, file_index>>
          ELSE FileReturns("Failed to read file")
    /\ UNCHANGED <<unitVars, backend, storage, runVars, total_fragments, batch, embeddings,
                   embed_calls, faults, runs, ret>>

\* storage.store_document(file_path, &file_data).await?
PdStore ==
    /\ pc = "pd_store"
    /\ \E document_id \in FreshDocIds, fault \in Faults(1) :
          LET r == store_document(backend, storage, document_id, CurrentFile.path,
                                  pd.file_data, fault)
          IN  /\ CountFault(fault)
              /\ storage' = r.store
              /\ IF r.ok
                 THEN /\ pd' = [pd EXCEPT !.document_id = r.value]
                      /\ pc' = "pd_extract"
                      /\ UNCHANGED <<results, file_index>>
                 ELSE FileReturns(r.err)
    /\ UNCHANGED <<unitVars, backend, runVars, total_fragments, batch, embeddings,
                   embed_calls, runs, ret>>

\* an extraction step that takes a text of whitespace for a document without
\* fragments instead of an error
PdExtract_EmptyIsOk ==
    /\ pc = "pd_extract"
    /\ LET r == extract_text_from_document(processor, CurrentFile)
       IN  IF r.ok \/ r.err = "No text could be extracted"
           THEN /\ pd' = [pd EXCEPT !.text = IF r.ok THEN r.text ELSE <<>>,
                                    !.file_data = "none"]
                /\ pc' = "pd_chunk"
                /\ UNCHANGED <<results, file_index>>
           ELSE FileReturns("Failed to extract text")
    /\ UNCHANGED <<unitVars, backend, storage, runVars, total_fragments, batch, embeddings,
                   embed_calls, faults, runs, ret>>

\* processor.extract_text_from_document(..)?; drop(file_data)
PdExtract ==
    /\ pc = "pd_extract"
    /\ LET r == extract_text_from_document(processor, CurrentFile)
       IN  IF r.ok
           THEN /\ pd' = [pd EXCEPT !.text = r.text, !.file_data = "none"]
                /\ pc' = "pd_chunk"
                /\ UNCHANGED <<results, file_index>>
           ELSE FileReturns("Failed to extract text")
    /\ UNCHANGED <<unitVars, backend, storage, runVars, total_fragments, batch, embeddings,
                   embed_calls, faults, runs, ret>>

\* processor.chunk_text(&text)?; drop(text)
PdChunk ==
    /\ pc = "pd_chunk"
    /\ pd' = [pd EXCEPT !.fragments = chunk_text(processor, pd.text),
                        !.text = NoText, !.order = 0]
    /\ pc' = "pd_frag"
    /\ UNCHANGED <<unitVars, backend, storage, runVars, file_index, results, total_fragments,
                   batch, embeddings, embed_calls, faults, runs, ret>>

\* one iteration of "for (order, fragment) in fragments.iter().enumerate()",
\* or the Ok(fragment_count) after the loop
PdFrag ==
    /\ pc = "pd_frag"
    /\ IF pd.order < Len(pd.fragments)
       THEN \E fragment_id \in FreshFragIds, fault \in Faults(1) :
               LET r == store_text_fragment(backend, storage, fragment_id,
                                            pd.document_id, pd.order,
                                            pd.fragments[pd.order + 1], fault)
               IN  /\ CountFault(fault)
                   /\ storage' = r.store
                   /\ IF r.ok
                      THEN /\ pd' = [pd EXCEPT !.order = @ + 1]
                           /\ UNCHANGED <<pc, results, file_index>>
                      ELSE FileReturns("Failed to store text fragment")
       ELSE /\ FileReturns("Ok")
            /\ UNCHANGED <<storage, faults>>
    /\ UNCHANGED <<unitVars, backend, runVars, total_fragments, batch, embeddings,
                   embed_calls, runs, ret>>

(***************************************************************************)
(* Phase 2: main's loop over process_embedding_batch.                      *)
(***************************************************************************)
\* main: storage.count_fragments_without_embeddings().await?
P2Count ==
    /\ pc = "p2_count"
    /\ \E fault \in Faults(1) :
          LET r == count_fragments_without_embeddings(backend, storage, fault)
          IN  /\ CountFault(fault)
              /\ IF r.ok
                 THEN /\ total_fragments' = r.value
                      /\ pc' = IF r.value > 0 THEN "p2_fetch" ELSE "done"
                 ELSE /\ pc' = "failed"
                      /\ UNCHANGED total_fragments
    \* the Phase 1 loop is over: its list and the printed outcomes are dead
    /\ supported_files' = <<>>
    /\ file_index' = 0
    /\ results' = <<>>
    \* the embedding backend is first used now
    /\ embedder' \in EmbedderKinds
    /\ UNCHANGED <<unitVars, backend, storage, model, processor, batch_size, pd,
                   batch, embeddings, embed_calls, runs, ret>>

\* the log of backend calls keeps the sizes of the first MaxCalls batches
Record(calls, texts) ==
    IF Len(calls) < MaxCalls THEN Append(calls, Len(texts)) ELSE calls

Texts(pairs) == [i \in 1..Len(pairs) |-> pairs[i][2]]
FragmentIds(pairs) == [i \in 1..Len(pairs) |-> pairs[i][1]]

\* process_embedding_batch up to the call of the embedding backend: the
\* fetch, the Ok(0) that ends main's loop, or the batch of texts sent
P2Fetch ==
    /\ pc = "p2_fetch"
    /\ \E fault \in Faults(1), rows \in FetchRows(backend, storage, batch_size) :
          LET r == get_fragments_without_embeddings(backend, storage, rows, fault)
          IN  /\ CountFault(fault)
              /\ IF ~r.ok
                 THEN pc' = "failed" /\ UNCHANGED <<batch, embed_calls>>
                 ELSE IF r.value = <<>>
                 THEN pc' = "done" /\ UNCHANGED <<batch, embed_calls>>
                 ELSE /\ batch' = r.value
                      /\ embed_calls' = Record(embed_calls, Texts(r.value))
                      /\ pc' = "p2_embed"
    /\ UNCHANGED <<unitVars, backend, storage, runVars, file_index, pd, results,
                   total_fragments, embeddings, runs, ret>>

RECURSIVE PersistLoop_StoreEmpty(_, _, _, _, _)
\* a loop that persists the empty vectors too
PersistLoop_StoreEmpty(store, fragment_ids, vectors, i, failAt) ==
    IF i > Len(fragment_ids) \/ i > Len(vectors) THEN Ok(store, "none")
    ELSE LET r == update_fragment_embedding(backend, store, fragment_ids[i],
                                            vectors[i],
                                            IF i = failAt THEN 1 ELSE 0)
         IN  IF r.ok
             THEN PersistLoop_StoreEmpty(r.store, fragment_ids, vectors, i + 1, failAt)
             ELSE r

RECURSIVE PersistLoop(_, _, _, _, _)
\* "for (fragment_id, embedding) in fragment_ids.iter().zip(embeddings.iter())"
\* from position i; the update at position failAt meets an engine failure
PersistLoop(store, fragment_ids, vectors, i, failAt) ==
    IF i > Len(fragment_ids) \/ i > Len(vectors) THEN Ok(store, "none")
    ELSE IF vectors[i] = <<>>
    THEN PersistLoop(store, fragment_ids, vectors, i + 1, failAt)
    ELSE LET r == update_fragment_embedding(backend, store, fragment_ids[i],
                                            vectors[i],
                                            IF i = failAt THEN 1 ELSE 0)
         IN  IF r.ok
             THEN PersistLoop(r.store, fragment_ids, vectors, i + 1, failAt)
             ELSE r

\* the backend's reply to generate_embeddings_batch(&texts): an error aborts
\* the run, else the vectors become the local "embeddings"
P2Reply ==
    /\ pc = "p2_embed"
    /\ \E reply \in Replies(embedder, Texts(batch)) :
          IF reply.ok
          THEN pc' = "p2_persist" /\ embeddings' = reply.vectors
          ELSE pc' = "failed" /\ UNCHANGED embeddings
    /\ UNCHANGED <<unitVars, backend, storage, runVars, file_index, pd, results,
                   total_fragments, batch, embed_calls, faults, runs, ret>>

\* no count check: zip stops at the shorter sequence
CountMatches_Always(fragment_ids, vectors) == TRUE

\* if embeddings.len() != fragment_ids.len() { bail!(..) }
CountMatches(fragment_ids, vectors) == Len(vectors) = Len(fragment_ids)

\* process_embedding_batch after the reply: the count check and the updates;
\* main loops (its counter only feeds the progress line), or aborts
P2Persist ==
    /\ pc = "p2_persist"
    /\ IF ~CountMatches(FragmentIds(batch), embeddings)
       THEN /\ pc' = "failed"
            /\ UNCHANGED <<storage, batch, embeddings, faults>>
       ELSE \E failAt \in (IF Faults(1) = {0} THEN {0} ELSE 0..Len(batch)) :
               LET r == PersistLoop(storage, FragmentIds(batch), embeddings, 1, failAt)
               IN  /\ storage' = r.store
                   /\ faults' = IF r.ok THEN faults ELSE faults + 1
                   /\ IF r.ok
                      THEN /\ batch' = <<>>
                           /\ embeddings' = <<>>
                           /\ pc' = "p2_fetch"
                      ELSE /\ pc' = "failed"
                           /\ UNCHANGED <<batch, embeddings>>
    /\ UNCHANGED <<unitVars, backend, runVars, file_index, pd, results, total_fragments,
                   embed_calls, runs, ret>>

Next ==
    \/ StartRun
    \/ MainVerify
    \/ MainScan
    \/ PdCheck
    \/ PdRead
    \/ PdStore
    \/ PdExtract
    \/ PdChunk
    \/ PdFrag
    \/ P2Count
    \/ P2Fetch
    \/ P2Reply
    \/ P2Persist

Spec == Init /\ [][Next]_vars

\* a step of Phase 2
Phase2Step == P2Count \/ P2Fetch \/ P2Reply \/ P2Persist

\* main is one sequential task: once in Phase 2 it keeps taking its steps
\* (the sleep between batches is 100 ms)
FairSpec == Spec /\ WF_vars(Phase2Step)

(***************************************************************************)
(* The storage interface called directly (trait Storage), with any         *)
(* arguments, on a store no run of main is using.                          *)
(***************************************************************************)
\* documents and fragments a directly driven store may hold
MaxHarnessDocs == 2
MaxHarnessFrags == 2

HarnessPaths == {"/in/a.txt", "/in/b.TXT"}
HarnessDocIds == 1..MaxHarnessDocs
HarnessFragIds == 1..MaxHarnessFrags
HarnessOrders == 0..1
HarnessContents == {<<"x">>, <<"y", "y">>}
HarnessVectors == {<<7>>}

Called(op, args, r) ==
    /\ storage' = r.store
    /\ ret' = [op |-> op, args |-> args, ok |-> r.ok, err |-> r.err, value |-> r.value]

HarnessIdle == pc = "exited" /\ runs = 0

CallVerifyOrSetModel ==
    /\ HarnessIdle
    /\ \E m \in ModelNames, fault \in Faults(2) :
          /\ Called("verify_or_set_model", <<m>>,
                    verify_or_set_model(backend, storage, m, fault))
          /\ CountFault(fault)
    /\ UNCHANGED <<unitVars, backend, runVars, mainVars, runs>>

CallDocumentExists ==
    /\ HarnessIdle
    /\ \E path \in HarnessPaths, fault \in Faults(1) :
          /\ Called("document_exists", <<path>>,
                    document_exists(backend, storage, path, fault))
          /\ CountFault(fault)
    /\ UNCHANGED <<unitVars, backend, runVars, mainVars, runs>>

CallStoreDocument ==
    /\ HarnessIdle
    /\ \E path \in HarnessPaths, fault \in Faults(1),
          id \in HarnessDocIds \ DOMAIN storage.documents :
          /\ Called("store_document", <<path>>,
                    store_document(backend, storage, id, path, "bytes", fault))
          /\ CountFault(fault)
    /\ UNCHANGED <<unitVars, backend, runVars, mainVars, runs>>

CallStoreTextFragment ==
    /\ HarnessIdle
    /\ \E document_id \in HarnessDocIds, order \in HarnessOrders,
          content \in HarnessContents, fault \in Faults(1),
          id \in FreshFragIds \cap HarnessFragIds :
          /\ Called("store_text_fragment", <<document_id, order, content>>,
                    store_text_fragment(backend, storage, id, document_id, order,
                                        content, fault))
          /\ CountFault(fault)
    /\ UNCHANGED <<unitVars, backend, runVars, mainVars, runs>>

CallUpdateFragmentEmbedding ==
    /\ HarnessIdle
    /\ \E fragment_id \in HarnessFragIds, embedding \in HarnessVectors,
          fault \in Faults(1) :
          /\ Called("update_fragment_embedding", <<fragment_id, embedding>>,
                    update_fragment_embedding(backend, storage, fragment_id,
                                              embedding, fault))
          /\ CountFault(fault)
    /\ UNCHANGED <<unitVars, backend, runVars, mainVars, runs>>

CallGetFragmentsWithoutEmbeddings ==
    /\ HarnessIdle
    /\ \E limit \in 1..MaxBatch, fault \in Faults(1) :
          \E rows \in FetchRows(backend, storage, limit) :
             /\ Called("get_fragments_without_embeddings", <<limit>>,
                       get_fragments_without_embeddings(backend, storage, rows, fault))
             /\ CountFault(fault)
    /\ UNCHANGED <<unitVars, backend, runVars, mainVars, runs>>

CallCountFragmentsWithoutEmbeddings ==
    /\ HarnessIdle
    /\ \E fault \in Faults(1) :
          /\ Called("count_fragments_without_embeddings", << >>,
                    count_fragments_without_embeddings(backend, storage, fault))
          /\ CountFault(fault)
    /\ UNCHANGED <<unitVars, backend, runVars, mainVars, runs>>

StorageNext ==
    \/ CallVerifyOrSetModel
    \/ CallDocumentExists
    \/ CallStoreDocument
    \/ CallStoreTextFragment
    \/ CallUpdateFragmentEmbedding
    \/ CallGetFragmentsWithoutEmbeddings
    \/ CallCountFragmentsWithoutEmbeddings

StorageInit == Init /\ batch_size = 1

StorageSpec == StorageInit /\ [][StorageNext]_vars

(***************************************************************************)
(* The functions of DocumentProcessor applied directly to bounded inputs.  *)
(***************************************************************************)
\* texts over TextChars have at most MaxChars characters
MaxChars == 5
\* texts made of sentences have at most MaxPieces of them
MaxPieces == 3

TextChars == {"a", SP, NL, TAB, CTL}

\* sentences of 3, 6, 14, 14 and 22 bytes, and one of 12 bytes in 7 characters
Pieces ==
    {<<"E", "a", ".">>,
     Sentence("A", 4),
     Sentence("B", 12),
     Sentence("C", 12),
     Sentence("D", 20),
     <<"F">> \o [i \in 1..5 |-> EACUTE] \o <<".">>}

SeqsUpTo(S, n) == UNION {[1..k -> S] : k \in 0..n}

InputTexts ==
    SeqsUpTo(TextChars, MaxChars)
    \cup {JoinWith(ps, <<SP>>) : ps \in SeqsUpTo(Pieces, MaxPieces)}

\* (chunk_size, overlap) as main sets them, scaled down to the sentences
\* above: a chunk size that holds one long sentence or two, with an overlap
\* that holds one short sentence, one that holds no sentence, and none
ChunkConfigs ==
    {[chunk_size |-> c, overlap |-> o,
      max_file_size |-> 52428800, max_text_length |-> 5000000] :
        c \in {20, 30}, o \in {12, 5, 0}}

\* the limits of main, and small limits that short texts exceed
ExtractConfigs ==
    Processors \cup {[chunk_size |-> 20, overlap |-> 12,
                      max_file_size |-> 8, max_text_length |-> 3]}

Extensions == {"txt", "TXT", "pdf", "exe"}

Apply(op, args, value) ==
    /\ applied = NoApplied
    /\ applied' = [op |-> op, args |-> args, value |-> value]
    /\ UNCHANGED <<input_text, input_pages, temp_dir, xlsx, backend, storage, runVars, mainVars,
                   faults, runs, ret>>

ApplyCleanupText ==
    Apply("cleanup_text", <<input_text>>, cleanup_text(input_text))

ApplySplitIntoSentences ==
    Apply("split_into_sentences", <<input_text>>, split_into_sentences(input_text))

ApplyChunkText ==
    \E p \in ChunkConfigs :
       Apply("chunk_text", <<p, input_text>>, chunk_text(p, input_text))

\* the payload has size bytes; its parser yields input_text, or fails
ApplyExtractText ==
    \E p \in ExtractConfigs, ext \in Extensions, parses \in BOOLEAN :
       \E size \in {StrLen(input_text), p.max_file_size, p.max_file_size + 1} :
          LET file == [path |-> "/in/x", ext |-> ext, size |-> size,
                       raw |-> IF parses THEN input_text ELSE ParseFailure,
                       pages |-> <<input_text>>]
          IN  Apply("extract_text_from_document", <<p, file>>,
                    extract_text_from_document(p, file))

TextNext ==
    \/ ApplyCleanupText
    \/ ApplySplitIntoSentences
    \/ ApplyChunkText
    \/ ApplyExtractText

TextInit ==
    /\ InitMain
    /\ backend = "duckdb"
    /\ batch_size = 1
    /\ input_text \in InputTexts
    /\ input_pages = <<>>
    /\ applied = NoApplied
    /\ temp_dir = {}
    /\ xlsx = NoXlsx

TextSpec == TextInit /\ [][TextNext]_vars

(***************************************************************************)
(* extract_text_from_document applied to files of a few pages.             *)
(***************************************************************************)

\* a PDF has at most MaxPages pages
MaxPages == 3

\* what extract_text gives for one page: a failure, no text, or a text of
\* 1, 2, 3 or 4 bytes, of one-byte and of two-byte characters
PageResults ==
    {PageFailure,
     <<>>,
     <<"a">>,
     <<"b", "b">>,
     <<EACUTE, EACUTE>>,
     <<"c", "c", "c">>,
     <<"d", SP, SP, "d">>}

PdfPages == SeqsUpTo(PageResults, MaxPages)

\* max_text_length scaled down to the pages above, and as main sets it
PdfConfigs ==
    Processors \cup {[chunk_size |-> 20, overlap |-> 12,
                      max_file_size |-> 8, max_text_length |-> m] : m \in {3, 5}}

\* the texts of the pages that extract, each followed by a line feed
PagesInOrder(pages) ==
    JoinWith([k \in 1..Len(pages) |->
                 IF pages[k] = PageFailure THEN <<>> ELSE pages[k] \o <<NL>>], <<>>)

\* the file holds input_pages: a PDF that Document::load_mem reads or fails
\* to read, or a file of another format with the same text
ApplyExtractPdf ==
    \E p \in PdfConfigs, ext \in {"pdf", "PDF", "txt", "docx"}, parses \in BOOLEAN :
       \E size \in {1, p.max_file_size + 1} :
          LET file == [path |-> "/in/x", ext |-> ext, size |-> size,
                       raw |-> IF parses THEN PagesInOrder(input_pages)
                                         ELSE ParseFailure,
                       pages |-> input_pages]
          IN  Apply("extract_text_from_document", <<p, file>>,
                    extract_text_from_document(p, file))

PdfNext == ApplyExtractPdf

PdfInit ==
    /\ InitMain
    /\ backend = "duckdb"
    /\ batch_size = 1
    /\ input_text = <<>>
    /\ input_pages \in PdfPages
    /\ applied = NoApplied
    /\ temp_dir = {}
    /\ xlsx = NoXlsx

PdfSpec == PdfInit /\ [][PdfNext]_vars

(***************************************************************************)
(* The format classifier and the directory scan applied to bounded inputs. *)
(***************************************************************************)
\* entries of the scanned directory
MaxEntries == 2

\* every supported extension, some in upper or mixed case, and others
ScanExtensions ==
    {"pdf", "txt", "text", "html", "htm", "docx", "pptx", "xlsx",
     "PDF", "Pdf", "TXT", "TEXT", "HTML", "Htm", "DOCX", "PPTX", "XLSX", "Xlsx",
     "exe", "EXE", "doc", "DOC", "md", "xls", NoExtension}

DirEntries == [ext : ScanExtensions, is_file : BOOLEAN]

ApplyFromExtension ==
    \E ext \in ScanExtensions :
       Apply("from_extension", <<ext>>, from_extension(ext))

ApplyExtensions ==
    \E format \in Formats :
       Apply("extensions", <<format>>, extensions(format))

ApplyFindSupportedFiles ==
    \E entries \in SeqsUpTo(DirEntries, MaxEntries) :
       Apply("find_supported_files", <<entries>>, find_supported_files(entries))

FormatNext ==
    \/ ApplyFromExtension
    \/ ApplyExtensions
    \/ ApplyFindSupportedFiles

FormatInit ==
    /\ InitMain
    /\ backend = "duckdb"
    /\ batch_size = 1
    /\ input_text = <<>>
    /\ input_pages = <<>>
    /\ applied = NoApplied
    /\ temp_dir = {}
    /\ xlsx = NoXlsx

FormatSpec == FormatInit /\ [][FormatNext]_vars

(***************************************************************************)
(* DocumentProcessor::extract_text_from_xlsx, step by step, with the       *)
(* temporary file it hands to the workbook reader.  A step that touches    *)
(* the file system may fail, as every std::fs call may.                    *)
(***************************************************************************)
\* calls of extract_text_from_xlsx in one behaviour
MaxXlsxCalls == 2
\* rows of the workbook
MaxRows == 2

\* what the worksheet loop collects from a workbook: its rows, one per line
XlsxTexts == {JoinWith(ps, <<NL>>) : ps \in SeqsUpTo(Pieces, MaxRows)}

XlsxUnchanged ==
    UNCHANGED <<input_text, input_pages, backend, storage, runVars, mainVars, faults,
                runs, ret>>

\* the function returns value to its caller
XlsxReturns(value) ==
    /\ applied' = [op |-> "extract_text_from_xlsx", args |-> <<input_text>>,
                   value |-> value]
    /\ xlsx' = [NoXlsx EXCEPT !.calls = xlsx.calls + 1]

\* temp_path = temp_dir().join(format!("temp_excel_{}.xlsx", Uuid::new_v4()));
\* std::fs::write(&temp_path, file_data)?  -- write creates the file and then
\* writes the payload: it may fail before the file exists ("none") or after
\* it was created, with the payload written in part ("part")
XlsxWrite ==
    /\ xlsx.pc = "idle"
    /\ xlsx.calls < MaxXlsxCalls
    /\ LET temp_path == xlsx.calls + 1
       IN  \E written \in {"all", "part", "none"} :
              /\ temp_dir' = IF written = "none" THEN temp_dir
                             ELSE temp_dir \cup {temp_path}
              /\ IF written = "all"
                 THEN /\ xlsx' = [xlsx EXCEPT !.pc = "open", !.temp_path = temp_path]
                      /\ UNCHANGED applied
                 ELSE XlsxReturns([ok |-> FALSE, err |-> "io error"])
    /\ XlsxUnchanged

\* the closure: open_workbook_auto(&temp_path) and the loop over the sheets
XlsxRead ==
    /\ xlsx.pc = "open"
    /\ \E opens \in BOOLEAN :
          xlsx' = [xlsx EXCEPT
                      !.pc = "remove",
                      !.result = IF opens
                                 THEN [ok |-> TRUE, text |-> input_text]
                                 ELSE [ok |-> FALSE, err |-> "Failed to open XLSX file"]]
    /\ UNCHANGED <<applied, temp_dir>>
    /\ XlsxUnchanged

\* let _ = std::fs::remove_file(&temp_path): an error is dropped
XlsxRemove ==
    /\ xlsx.pc = "remove"
    /\ \E removed \in BOOLEAN :
          temp_dir' = IF removed THEN temp_dir \ {xlsx.temp_path} ELSE temp_dir
    /\ xlsx' = [xlsx EXCEPT !.pc = "return"]
    /\ UNCHANGED applied
    /\ XlsxUnchanged

\* let all_text = result?; then the normalization and the truncation
XlsxFinish ==
    /\ xlsx.pc = "return"
    /\ XlsxReturns(IF xlsx.result.ok
                   THEN [ok |-> TRUE, text |-> CleanAndTruncate(processor, xlsx.result.text)]
                   ELSE xlsx.result)
    /\ UNCHANGED temp_dir
    /\ XlsxUnchanged

XlsxNext ==
    \/ XlsxWrite
    \/ XlsxRead
    \/ XlsxRemove
    \/ XlsxFinish

XlsxInit ==
    /\ InitMain
    /\ backend = "duckdb"
    /\ batch_size = 1
    /\ input_text \in XlsxTexts
    /\ input_pages = <<>>
    /\ applied = NoApplied
    /\ temp_dir = {}
    /\ xlsx = NoXlsx

XlsxSpec == XlsxInit /\ [][XlsxNext]_vars

(***************************************************************************)
(* Properties of the storage interface (StorageSpec).                      *)
(***************************************************************************)
HasModel(store) == "embedding_model" \in DOMAIN store.metadata

\* the step is a call verify_or_set_model(name) that met no engine failure
VerifyCall(name) ==
    /\ ret'.op = "verify_or_set_model"
    /\ ret'.args = <<name>>
    /\ ret'.err # "StorageError"

\* C2: in both backends, verify_or_set_model(name) on a store without a model
\* records name (and the version) and succeeds; once a model is recorded no
\* operation changes the metadata, and verify_or_set_model(name) succeeds for
\* the recorded name and fails with a model mismatch for any other name.
C2_ModelImmutable ==
    [][ /\ HasModel(storage) => storage'.metadata = storage.metadata
        /\ \A name \in ModelNames :
              VerifyCall(name) =>
                 /\ HasModel(storage')
                 /\ storage'.metadata["version"] = DB_VERSION
                 /\ IF HasModel(storage)
                    THEN IF storage.metadata["embedding_model"] = name
                         THEN ret'.ok
                         ELSE ~ret'.ok /\ ret'.err = "ModelMismatch"
                    ELSE ret'.ok /\ storage'.metadata["embedding_model"] = name
      ]_vars

\* a call with another name than the recorded one was rejected
C2_Witness ==
    /\ ret.op = "verify_or_set_model"
    /\ ~ret.ok
    /\ ret.err = "ModelMismatch"
    /\ HasModel(storage)
    /\ storage.metadata["embedding_model"] # ret.args[1]

\* C3: in both backends, after a successful store_document(path, bytes) the
\* path is stored (document_exists(path) is true), and no two Document
\* records of a store have the same path.
C3_OneDocumentPerPath ==
    /\ (ret.op = "store_document" /\ ret.ok) => PathStored(storage, ret.args[1])
    /\ \A d1, d2 \in DOMAIN storage.documents :
          storage.documents[d1].file_path = storage.documents[d2].file_path
             => d1 = d2

\* C10: in both backends, get_fragments_without_embeddings(limit) returns at
\* most limit (id, text) pairs, each a stored fragment without an embedding
\* with its text, sorted by (document_id, order), and no fragment left out
\* sorts strictly before a returned one.
C10_FetchFirstInOrder ==
    (ret.op = "get_fragments_without_embeddings" /\ ret.ok) =>
        LET pairs == ret.value
            n == Len(pairs)
            ids == {pairs[i][1] : i \in 1..n}
        IN  /\ n <= ret.args[1]
            /\ \A i \in 1..n :
                  /\ pairs[i][1] \in Unembedded(storage)
                  /\ pairs[i][2] = storage.fragments[pairs[i][1]].content
            /\ \A i, j \in 1..n : i # j => pairs[i][1] # pairs[j][1]
            /\ \A i \in 1..(n - 1) : FragLeq(storage, pairs[i][1], pairs[i + 1][1])
            /\ \A i \in 1..n : \A f \in Unembedded(storage) \ ids :
                  FragLeq(storage, pairs[i][1], f)
            /\ n = Min(ret.args[1], Cardinality(Unembedded(storage)))


(***************************************************************************)
(* Properties of the ingestion pipeline (Spec, FairSpec).                  *)
(***************************************************************************)
Phase1 == {"pd_check", "pd_read", "pd_store", "pd_extract", "pd_chunk", "pd_frag"}
Phase2 == {"p2_count", "p2_fetch", "p2_embed", "p2_persist"}

\* C1: with an embedding backend that honours its contract (one vector per
\* text, the empty vector allowed), Phase 2 eventually ends: the run reaches
\* Done, or stops on a storage failure.
C1_Phase2Terminates ==
    []<>(embedder \in {"full", "partial"} => pc \notin Phase2)

\* C4: process_document on a path that already has a Document returns an
\* error for that file at once, and the store (metadata, documents,
\* fragments, embeddings) is left as it was.
C4_ReingestIsNoOp ==
    [][ (pc = "pd_check" /\ PathStored(storage, CurrentFile.path)) =>
           /\ storage' = storage
           /\ Len(results') = Len(results) + 1
           /\ SubSeq(results', 1, Len(results)) = results
           /\ results'[Len(results')][1] = CurrentFileId
           /\ results'[Len(results')][2] \in {"Document already exists", "StorageError"}
           /\ pc' \in {"pd_check", "p2_count"}
      ]_vars

\* the last file attempted was rejected because its path is stored
C4_Witness ==
    /\ results # <<>>
    /\ results[Len(results)][2] = "Document already exists"
    /\ PathStored(storage, Files[results[Len(results)][1]].path)

\* per processor and file: the chunks chunk_text gives for the file's text
ChunksByFile ==
    [p \in Processors |->
        [f \in FileIds |->
            LET r == extract_text_from_document(p, Files[f])
            IN  IF r.ok THEN chunk_text(p, r.text) ELSE <<>>]]

\* the chunks of the file a Document was read from
SourceChunks(d) == ChunksByFile[processor][storage.documents[d].file_data]

FragmentsOf(d) == {f \in DOMAIN storage.fragments : storage.fragments[f].document_id = d}

\* C5: the fragments of every Document have the orders 0..k-1, each once,
\* and the fragment with order i holds the i-th string (0-based) chunk_text
\* returned for the document; this also holds when storing a fragment
\* failed part-way.
C5_FragmentOrderGapFree ==
    \A d \in DOMAIN storage.documents :
        LET fs == FragmentsOf(d)
            k == Cardinality(fs)
        IN  k > 0 =>
               LET chunks == SourceChunks(d)
               IN  /\ k <= Len(chunks)
                   /\ \A i \in 0..(k - 1) :
                         \E f \in fs :
                            /\ storage.fragments[f].fragment_order = i
                            /\ storage.fragments[f].content = chunks[i + 1]

\* a file whose second fragment could not be stored kept its first
C5_Witness ==
    /\ results # <<>>
    /\ results[Len(results)][2] = "Failed to store text fragment"
    /\ \E d \in DOMAIN storage.documents :
          /\ storage.documents[d].file_data = results[Len(results)][1]
          /\ Cardinality(FragmentsOf(d)) = 1
          /\ Len(SourceChunks(d)) = 2

\* the files attempted so far are the head of the list, each once, in order
AttemptedInOrder ==
    /\ Len(results) <= Len(supported_files)
    /\ \A i \in 1..Len(results) : results[i][1] = supported_files[i]
    /\ pc \in Phase1 => file_index = Len(results) + 1
    /\ pc = "p2_count" => Len(results) = Len(supported_files)

\* C6: during Phase 1 every file of the list is attempted exactly once, in
\* list order, whatever the outcome of the files before it; a file's error
\* never ends the run, and after the last file the run goes on to Phase 2.
C6_EveryFileAttempted ==
    /\ [](pc \in Phase1 \cup {"p2_count"} => AttemptedInOrder)
    /\ [][(pc \in Phase1) => (pc' \in Phase1 \cup {"p2_count"})]_vars

\* Phase 1 of two files is over: the first failed, the second succeeded
C6_Witness ==
    /\ pc = "p2_count"
    /\ Len(results) = 2
    /\ results[1][2] # "Ok"
    /\ results[2][2] = "Ok"

\* the batch sizes of Phase 2 over n fragments with batch size b
ExpectedCalls(n, b) ==
    [i \in 1..((n + b - 1) \div b) |-> IF i * b <= n THEN b ELSE n % b]

\* C7: when Phase 2 starts with N >= 1 un-embedded fragments and the backend
\* gives every text a non-empty vector, a run that reaches Done has called
\* the backend ceil(N / B) times, with B texts each time except N mod B in
\* a shorter last call, and no fragment is left without an embedding.
C7_BatchCount ==
    (pc = "done" /\ embedder = "full" /\ total_fragments > 0) =>
        /\ embed_calls = ExpectedCalls(total_fragments, batch_size)
        /\ Unembedded(storage) = {}

\* three fragments were embedded in batches of two: calls of 2 and 1 texts
C7_Witness ==
    /\ pc = "done"
    /\ embedder = "full"
    /\ total_fragments = 3
    /\ batch_size = 2
    /\ embed_calls = <<2, 1>>

\* C8: when the backend returned a number of vectors other than the number
\* of texts it was given, the batch fails without any update of the store,
\* and the run ends with that error.
C8_MismatchAbortsBeforeUpdate ==
    [][ (pc = "p2_persist" /\ Len(embeddings) # Len(batch)) =>
           (storage' = storage /\ pc' = "failed") ]_vars

\* the run failed on a reply with a wrong, non-zero number of vectors
C8_Witness ==
    /\ pc = "failed"
    /\ embeddings # <<>>
    /\ Len(embeddings) # Len(batch)

\* C9: within a run no embedding call is made while files are processed;
\* Phase 1 is left only for Phase 2 and only after the last file; and from
\* the start of Phase 2 to the end of the run no Document or Fragment is
\* created.
C9_PhasesNotInterleaved ==
    /\ [](pc \in Phase1 => embed_calls = <<>> /\ batch = <<>>)
    /\ [][ /\ (pc \in Phase1 /\ pc' \notin Phase1) =>
                (pc' = "p2_count" /\ Len(results') = Len(supported_files))
           /\ pc \in Phase2 =>
                /\ pc' \in Phase2 \cup {"done", "failed"}
                /\ storage'.documents = storage.documents
                /\ storage'.fragments = storage.fragments
         ]_vars

\* Phase 2 is embedding fragments this run's Phase 1 stored
C9_Witness ==
    /\ pc = "p2_persist"
    /\ embed_calls # <<>>
    /\ storage.fragments # EmptyMap
    /\ storage.embeddings # EmptyMap

(***************************************************************************)
(* Properties of DocumentProcessor's functions (TextSpec).                 *)
(***************************************************************************)
Applied(op) == applied.op = op

\* C11: extract_text_from_document fails with the size-limit error whenever
\* the payload has more than max_file_size bytes, whatever the extension
\* (supported or not) and whatever the payload (parsable or not); no other
\* error is returned for such a payload.
C11_SizeLimitFirst ==
    (/\ Applied("extract_text_from_document")
     /\ applied.args[2].size > applied.args[1].max_file_size)
    => applied.value = [ok |-> FALSE, err |-> "File too large"]

\* an oversized payload with an unsupported extension that no parser reads
C11_Witness ==
    /\ Applied("extract_text_from_document")
    /\ applied.args[2].size > applied.args[1].max_file_size
    /\ applied.args[2].ext = "exe"
    /\ applied.args[2].raw = ParseFailure
    /\ applied.value = [ok |-> FALSE, err |-> "File too large"]

(***************************************************************************)
(* Properties of process_document on oversized and unreadable files (Spec).*)
(***************************************************************************)
\* C12: a file larger than the processor's max_file_size (50 MiB in main)
\* is rejected before store_document is called: the store never holds a
\* Document that was read from such a file.
C12_OversizedNeverStored ==
    \A d \in DOMAIN storage.documents :
        Files[storage.documents[d].file_data].size <= processor.max_file_size

\* per processor and file: whether extract_text_from_document gives a text
ExtractOkByFile ==
    [p \in Processors |->
        [f \in FileIds |-> extract_text_from_document(p, Files[f]).ok]]

\* C13: when extraction fails or yields only whitespace after the raw bytes
\* were stored, process_document returns an error for that file, the
\* Document with its raw bytes stays in the store, and no fragment is ever
\* stored for that Document.
C13_FailedExtractionKeepsDocument ==
    /\ [][(pc = "pd_extract" /\ ~ExtractOkByFile[processor][CurrentFileId]) =>
            (/\ results' = Append(results, <<CurrentFileId, "Failed to extract text">>)
             /\ storage' = storage
             /\ pd.document_id \in DOMAIN storage.documents
             /\ storage.documents[pd.document_id] =
                    [file_path |-> CurrentFile.path, file_data |-> CurrentFileId])
         ]_vars
    /\ [](\A d \in DOMAIN storage.documents :
             ~ExtractOkByFile[processor][storage.documents[d].file_data]
                 => FragmentsOf(d) = {})

\* Phase 1 is over, the PDF whose text is only whitespace failed, and its
\* Document is stored without fragments
C13_Witness ==
    /\ pc = "p2_count"
    /\ \E i \in 1..Len(results) :
          /\ results[i] = <<"c", "Failed to extract text">>
          /\ \E d \in DOMAIN storage.documents :
                /\ storage.documents[d].file_data = "c"
                /\ FragmentsOf(d) = {}

(***************************************************************************)
(* Properties of cleanup_text (TextSpec).                                  *)
(***************************************************************************)
\* C14: cleanup_text is idempotent: applying it to its own result gives that
\* result again, for every text, control characters next to spaces included.
C14_CleanupIdempotent ==
    Applied("cleanup_text") => cleanup_text(applied.value) = applied.value

\* C15: cleanup_text keeps the line structure: the result is the non-blank
\* lines of the input, each trimmed and with its runs of spaces and tabs
\* collapsed to one space, joined by exactly one blank line (two newlines).
C15_ParagraphsKept ==
    (/\ Applied("cleanup_text")
     /\ \A i \in 1..Len(applied.args[1]) : applied.args[1][i] # CTL)
    => LET lines == SplitOn(applied.args[1], NL, <<>>)
           kept == [i \in 1..Len(lines) |-> Trim(CollapseWhitespace(lines[i], FALSE))]
       IN  applied.value = JoinWith(SelectNonEmpty(kept), <<NL, NL>>)

(***************************************************************************)
(* Properties of chunk_text (TextSpec).                                    *)
(***************************************************************************)
\* C16: chunk_text gives no fragment for the empty text, and every fragment
\* it gives, for every text and configuration, is trimmed and has at least
\* 11 characters.
C16_FragmentsTrimmedAndLong ==
    Applied("chunk_text") =>
        /\ applied.args[2] = <<>> => applied.value = <<>>
        /\ \A j \in 1..Len(applied.value) :
              /\ Trim(applied.value[j]) = applied.value[j]
              /\ Len(applied.value[j]) >= MinChunkLen + 1

\* the text that follows the overlap text a chunk was started from
CoreOf(chunk, seed) ==
    IF seed = <<>> THEN chunk ELSE SubSeq(chunk, Len(seed) + 2, Len(chunk))

\* C17: for every text, the fragments of chunk_text without their overlap
\* prefixes, joined in order, are exactly the sentences of
\* split_into_sentences in order: no sentence is lost.
C17_CoresReconstructSentences ==
    Applied("chunk_text") =>
        LET sentences == split_into_sentences(applied.args[2])
            t == ChunkTrace(applied.args[1], applied.args[2])
            cores == [j \in 1..Len(applied.value) |->
                         CoreOf(applied.value[j], t.marks[j].seed)]
        IN  /\ t.chunks = applied.value
            /\ JoinWith(cores, <<SP>>) = JoinSentences(sentences, 1, Len(sentences))

\* C18: for two consecutive fragments of chunk_text, the overlap prefix of
\* the later one is made of whole sentences, is no longer than the overlap
\* size, and is a suffix of the earlier fragment.
C18_OverlapIsSuffixOfPrevious ==
    Applied("chunk_text") =>
        LET p == applied.args[1]
            sentences == split_into_sentences(applied.args[2])
            t == ChunkTrace(p, applied.args[2])
        IN  \A j \in 1..(Len(applied.value) - 1) :
               LET seed == t.marks[j + 1].seed
                   prev == applied.value[j]
               IN  /\ \E f \in 1..(Len(sentences) + 1), l \in 0..Len(sentences) :
                         seed = JoinSentences(sentences, f, l)
                   /\ StrLen(seed) <= p.overlap
                   /\ Len(seed) <= Len(prev)
                   /\ SubSeq(prev, Len(prev) - Len(seed) + 1, Len(prev)) = seed

\* C19: every fragment of chunk_text is no longer than chunk_size plus the
\* length of one of the text's sentences plus the overlap size.
C19_FragmentLengthBound ==
    Applied("chunk_text") =>
        LET p == applied.args[1]
            sentences == split_into_sentences(applied.args[2])
        IN  \A j \in 1..Len(applied.value) :
               \E k \in 1..Len(sentences) :
                  StrLen(applied.value[j])
                      <= p.chunk_size + StrLen(sentences[k]) + p.overlap

\* a fragment longer than chunk_size: an overlap text and one long sentence
C19_Witness ==
    /\ Applied("chunk_text")
    /\ \E j \in 1..Len(applied.value) :
          /\ StrLen(applied.value[j]) > applied.args[1].chunk_size
          /\ ChunkTrace(applied.args[1], applied.args[2]).marks[j].seed # <<>>

\* C20: chunk_text never splits a sentence: every fragment is a run of whole
\* consecutive sentences joined by single spaces, and every sentence longer
\* than chunk_size lies, in full, in exactly one fragment.
C20_SentencesNeverSplit ==
    Applied("chunk_text") =>
        LET p == applied.args[1]
            sentences == split_into_sentences(applied.args[2])
            t == ChunkTrace(p, applied.args[2])
        IN  /\ t.chunks = applied.value
            /\ \A j \in 1..Len(applied.value) :
                  /\ 1 <= t.marks[j].first
                  /\ t.marks[j].first <= t.marks[j].last
                  /\ t.marks[j].last <= Len(sentences)
                  /\ applied.value[j] =
                         JoinSentences(sentences, t.marks[j].first, t.marks[j].last)
            /\ \A k \in 1..Len(sentences) :
                  StrLen(sentences[k]) > p.chunk_size =>
                      Cardinality({j \in 1..Len(applied.value) :
                                      /\ t.marks[j].first <= k
                                      /\ k <= t.marks[j].last}) = 1

\* two fragments, the second made of an overlap sentence and a sentence
\* longer than chunk_size
C20_Witness ==
    /\ Applied("chunk_text")
    /\ Len(applied.value) = 2
    /\ LET sentences == split_into_sentences(applied.args[2])
           t == ChunkTrace(applied.args[1], applied.args[2])
       IN  /\ t.marks[2].seed # <<>>
           /\ t.marks[2].first < t.marks[2].last
           /\ StrLen(sentences[t.marks[2].last]) > applied.args[1].chunk_size

(***************************************************************************)
(* Properties of stored fragments and of Phase 2's batches (Spec).         *)
(***************************************************************************)
\* the step does not begin a process on the in-memory backend, whose store
\* is new in every process
StoreLives == backend = "duckdb" \/ pc' # "verify"

\* C21: a stored fragment keeps its document id, order and text and is never
\* deleted; an embedding, once present, is never written again; and the
\* fragments Phase 2 fetches and sends to the embedding backend have no
\* embedding.
C21_FragmentsImmutable ==
    /\ [][StoreLives =>
            (/\ \A f \in DOMAIN storage.fragments :
                   /\ f \in DOMAIN storage'.fragments
                   /\ storage'.fragments[f] = storage.fragments[f]
             /\ \A f \in DOMAIN storage.embeddings :
                   /\ f \in DOMAIN storage'.embeddings
                   /\ storage'.embeddings[f] = storage.embeddings[f])
         ]_vars
    /\ [](pc \in {"p2_embed", "p2_persist"} =>
             \A i \in 1..Len(batch) :
                /\ batch[i][1] \in Unembedded(storage)
                /\ batch[i][2] = storage.fragments[batch[i][1]].content)

\* a batch is about to be sent while other fragments already have embeddings
C21_Witness ==
    /\ pc = "p2_embed"
    /\ batch # <<>>
    /\ DOMAIN storage.embeddings # {}

(***************************************************************************)
(* Properties of extract_text_from_xlsx (XlsxSpec).                        *)
(***************************************************************************)
\* C22: whenever extract_text_from_xlsx has returned, with a text or with
\* any error, no temporary file it created is left in the temporary
\* directory.
C22_TempFileRemoved ==
    xlsx.pc = "idle" => temp_dir = {}

(***************************************************************************)
(* Properties of the format classifier and the directory scan (FormatSpec).*)
(***************************************************************************)
\* C23: from_extension(e) is format f exactly when the lowercased e is one
\* of f.extensions(), whatever the case of e; find_supported_files admits a
\* file exactly when from_extension of its extension is a format; and the
\* extraction of an admitted file never fails as an unsupported format.
C23_ClassifierAndScanAgree ==
    /\ Applied("from_extension") =>
          LET e == applied.args[1]
          IN  /\ \A f \in Formats :
                    applied.value = f <=> to_lowercase(e) \in extensions(f)
              /\ applied.value \in Formats \cup {NoFormat}
              /\ applied.value = from_extension(to_lowercase(e))
    /\ Applied("find_supported_files") =>
          LET entries == applied.args[1]
              files == SelectSeq(entries, LAMBDA entry : entry.is_file)
          IN  /\ applied.value =
                     SelectSeq(files, LAMBDA entry : from_extension(entry.ext) # NoFormat)
              /\ \A i \in 1..Len(applied.value) : \A p \in ExtractConfigs :
                    LET file == [path |-> "/in/x", ext |-> applied.value[i].ext,
                                 size |-> 1, raw |-> <<"a">>,
                                 pages |-> <<<<"a">>>>]
                        r == extract_text_from_document(p, file)
                    IN  r.ok \/ r.err # "Unsupported file format"

\* a scan that admits an upper-case .PDF and leaves out a .doc
C23_Witness ==
    /\ Applied("find_supported_files")
    /\ Len(applied.args[1]) = 2
    /\ applied.args[1][1] = [ext |-> "doc", is_file |-> TRUE]
    /\ applied.args[1][2] = [ext |-> "PDF", is_file |-> TRUE]
    /\ applied.value = <<[ext |-> "PDF", is_file |-> TRUE]>>
    /\ from_extension("PDF") = "Pdf"

(***************************************************************************)
(* Referential integrity of the store (StorageSpec).                       *)
(***************************************************************************)
\* C24: in both backends, after any sequence of storage operations, the
\* document_id of every stored fragment is the id of a stored Document.
C24_FragmentsReferenceDocuments ==
    \A f \in DOMAIN storage.fragments :
        storage.fragments[f].document_id \in DOMAIN storage.documents

(***************************************************************************)
(* Properties of one embedding batch (Spec).                               *)
(***************************************************************************)
\* the form in which the backend in use keeps a vector
StoredVector(v) ==
    IF backend = "lancedb" THEN [k \in 1..Len(v) |-> ToF32(v[k])] ELSE v

\* C25: when a batch is persisted and the engine does not fail, the vector
\* at index i of the reply becomes the embedding of the fragment at index i
\* of the request; a fragment whose vector is empty gets no embedding and
\* the batch does not fail because of it; no other fragment is touched.
C25_VectorsAlignedEmptySkipped ==
    [][(pc = "p2_persist" /\ Len(embeddings) = Len(batch) /\ faults' = faults) =>
          (/\ pc' = "p2_fetch"
           /\ \A i \in 1..Len(batch) :
                 IF embeddings[i] = <<>>
                 THEN batch[i][1] \notin DOMAIN storage'.embeddings
                 ELSE /\ batch[i][1] \in DOMAIN storage'.embeddings
                      /\ storage'.embeddings[batch[i][1]] = StoredVector(embeddings[i])
           /\ \A f \in DOMAIN storage'.embeddings \ DOMAIN storage.embeddings :
                 \E i \in 1..Len(batch) : batch[i][1] = f)
      ]_vars

\* a batch of two texts of different lengths was persisted: one fragment got
\* its vector, the other, answered with the empty vector, is still without
C25_Witness ==
    /\ pc = "p2_fetch"
    /\ embedder = "partial"
    /\ embed_calls = <<2>>
    /\ \E f, g \in DOMAIN storage.fragments :
          /\ f \in DOMAIN storage.embeddings
          /\ g \in Unembedded(storage)
          /\ storage.embeddings[f] = StoredVector(Embedding(storage.fragments[f].content))
          /\ Embedding(storage.fragments[f].content) # Embedding(storage.fragments[g].content)

\* C26: for every format the text extract_text_from_document returns has at
\* most max_text_length characters; for a PDF it is the normalization of a
\* prefix of the texts of the pages that extract, in ascending page order,
\* the pages that fail left out: the text is cut while the pages are
\* accumulated, and not again after cleanup_text
C26_ExtractedTextBounded ==
    (Applied("extract_text_from_document") /\ applied.value.ok) =>
        LET p    == applied.args[1]
            file == applied.args[2]
            text == applied.value.text
            all  == PagesInOrder(file.pages)
        IN  /\ Len(text) <= p.max_text_length
            /\ from_extension(file.ext) = "Pdf" =>
                  \E k \in 0..Len(all) : text = cleanup_text(SubSeq(all, 1, k))

\* a PDF of three pages with max_text_length = 3: the first page fails, the
\* second fills two bytes and its line feed the third, the third is cut to
\* nothing
C26_Witness ==
    /\ Applied("extract_text_from_document")
    /\ applied.value.ok
    /\ applied.args[1].max_text_length = 3
    /\ applied.args[2].ext = "pdf"
    /\ applied.args[2].pages = <<PageFailure, <<"b", "b">>, <<"c", "c", "c">>>>
    /\ applied.value.text = <<"b", "b">>
\* the files whose raw bytes are live, the extracted texts that are live
LiveFileData == IF pd.file_data = "none" THEN {} ELSE {pd.file_data}
LiveText == IF pd.text = NoText THEN {} ELSE {pd.text}

\* C27: during Phase 1 the only raw bytes and the only extracted text that
\* are live are those of the file being processed; its raw bytes are released
\* before its chunking starts, its text before its fragments are persisted,
\* and nothing is live when the next file is checked and read, after a
\* success as after a failure, nor after Phase 1
C27_OneFileLive ==
    /\ pc \in {"pd_check", "pd_read", "pd_store", "pd_extract", "pd_chunk", "pd_frag"} =>
          LiveFileData \subseteq {CurrentFileId}
    /\ pc \in {"pd_chunk", "pd_frag"} => LiveFileData = {}
    /\ pc = "pd_frag" => LiveText = {}
    /\ pc \in {"pd_check", "pd_read"} => LiveFileData = {} /\ LiveText = {}
    /\ pc \notin {"pd_store", "pd_extract", "pd_chunk"} =>
          LiveFileData = {} /\ LiveText = {}

\* the second file is about to be read after the first failed in extraction,
\* with its raw bytes stored
C27_Witness ==
    /\ pc = "pd_read"
    /\ file_index = 2
    /\ results = <<<<"c", "Failed to extract text">>>>
    /\ \E d \in DOMAIN storage.documents : storage.documents[d].file_data = "c"
    /\ pd = NoPd
\* C28: when a run exits successfully and its embedding backend gave only
\* non-empty vectors, no stored fragment is left without an embedding, also
\* when the store held such fragments before the run and when the input
\* directory has no supported file
C28_NoneUnembeddedAtExit ==
    (pc = "done" /\ embedder = "full") =>
        count_fragments_without_embeddings(backend, storage, 0).value = 0
\* the fragments stored for the file at a path
FragmentsOfPath(path) ==
    {f \in DOMAIN storage.fragments :
        LET d == storage.fragments[f].document_id
        IN  d \in DOMAIN storage.documents /\ storage.documents[d].file_path = path}

\* C29: every file Phase 1 reports as successful has at least one fragment
\* stored
C29_SuccessHasFragment ==
    \A i \in DOMAIN results :
        results[i][2] = "Ok" => FragmentsOfPath(Files[results[i][1]].path) # {}
\* the rows of the documents and of the fragments table for a path
DocumentRows(path) ==
    {d \in DOMAIN storage.documents : storage.documents[d].file_path = path}
FragmentRows(path) == [f \in FragmentsOfPath(path) |-> storage.fragments[f]]

\* process_document is between its store_document and its return for path
InProcess(path) ==
    pc \in {"pd_extract", "pd_chunk", "pd_frag"} /\ CurrentFile.path = path

\* C30: on the durable store, a path whose raw bytes are stored and whose
\* process_document has returned, in failure as in success, is rejected when
\* a run meets it again ("Document already exists", or the engine's error
\* when the check itself fails), and no step stores raw bytes or fragments
\* for it: its document and its fragment set never change again
C30_StoredPathNeverStoredAgain ==
    [][backend = "duckdb" =>
         /\ (pc = "pd_check" /\ PathStored(storage, CurrentFile.path)) =>
               /\ storage' = storage
               /\ Len(results') = Len(results) + 1
               /\ results'[Len(results')][2] \in
                     {"Document already exists", "StorageError"}
         /\ \A id \in FileIds :
               (PathStored(storage, Files[id].path) /\ ~InProcess(Files[id].path)) =>
                  /\ DocumentRows(Files[id].path)' = DocumentRows(Files[id].path)
                  /\ FragmentRows(Files[id].path)' = FragmentRows(Files[id].path)]_vars

\* the second run meets a.txt again, whose first run stored the raw bytes and
\* one fragment and failed on the second fragment, and c.pdf, whose
\* extraction failed: both are rejected, a.txt keeps its one fragment
C30_Witness ==
    /\ backend = "duckdb"
    /\ runs = 2
    /\ results = <<<<"a", "Document already exists">>, <<"c", "Document already exists">>>>
    /\ Cardinality(FragmentsOfPath("/in/a.txt")) = 1
    /\ Cardinality(DocumentRows("/in/c.pdf")) = 1
    /\ FragmentsOfPath("/in/c.pdf") = {}
====
